---------------------------- MODULE Spec2Model ----------------------------
(***************************************************************************)
(* A model of the Comically comic reader (DrSkunk/comically).             *)
(*                                                                         *)
(*   - App (App.tsx): the screen state machine and the current comic.      *)
(*   - Library (Library.tsx): downloadAndOpenComic and its await points.   *)
(*   - ComicReader (ComicReader.tsx): cursor, zoom, pan, image sets and    *)
(*     the saveProgress effect.                                            *)
(*   - StorageService / ComicService: progress persistence (a read and a   *)
(*     write of the whole "comic_progress" record) and archive extraction. *)
(*                                                                         *)
(* Numbers that are JavaScript doubles in the source (zoom, pan offset)    *)
(* are exact rationals <<n, d>> here, d > 0, in lowest terms.              *)
(***************************************************************************)
EXTENDS Integers, Sequences, FiniteSets, TLC

VARIABLES
    \* ---- App.tsx
    currentState,        \* "login" | "folder-picker" | "library" | "reader" | "settings"
    accessToken,         \* NULL or a token
    selectedFolder,      \* NULL or a folder id
    currentComic,        \* NoComic or a Comic record
    readingSettings,     \* ReadingSettings record
    pending,             \* App handlers suspended at their await
    \* ---- Library.tsx (state of the mounted Library instance, and the
    \* ---- downloadAndOpenComic calls that have not returned yet)
    downloadingComics,   \* set of comic ids
    error,               \* NULL or the message shown by the Library
    opens,               \* the downloadAndOpenComic calls made so far, oldest first
    \* ---- ComicReader.tsx
    currentPageIndex,
    zoom,
    position,
    loadedImages,
    imageErrors,
    savedDeps,           \* dependencies the saveProgress effect last ran with
    \* ---- browser and localforage
    comicProgress,       \* the "comic_progress" record: the progress of each comic id in it
    saves,               \* sequence of in-flight saveComicProgress calls
    storedSettings,      \* the "reading_settings" record, if any: <<>> or <<settings>>
    settingsSaves,       \* settings passed to saveReadingSettings calls still in flight
    objectUrls,          \* number of object URLs URL.createObjectURL has handed out
    revokedUrls,         \* object URLs passed to URL.revokeObjectURL, with multiplicity
    now,                 \* the clock read by new Date()
    \* ---- archive extraction on its own (SpecExtract)
    archive,             \* the entries of the ZIP container, in container order
    extracted,           \* the result of extractPagesFromCBR on archive
    compared,            \* the last naturalSort call and its result: <<>> or <<call>>
    preload,             \* the preloadPages call that is followed, or NoPreload
    \* ---- the scroll container of continuous mode
    containerScrollTop,  \* container.scrollTop at the last scroll event
    \* ---- history
    lastOp               \* the reader handler or service function that ran in the
                         \* last step, "none" after any other step

appVars     == <<currentState, accessToken, selectedFolder, currentComic>>
libraryVars == <<downloadingComics, error, opens>>
viewVars    == <<currentPageIndex, zoom, position, loadedImages, imageErrors>>
storeVars   == <<comicProgress, saves, storedSettings, settingsSaves, now>>
urlVars     == <<objectUrls, revokedUrls>>
extractVars == <<archive, extracted, compared, preload>>

vars == <<currentState, accessToken, selectedFolder, currentComic, readingSettings,
          pending, downloadingComics, error, opens,
          currentPageIndex, zoom, position, loadedImages, imageErrors, savedDeps,
          comicProgress, saves, storedSettings, settingsSaves,
          objectUrls, revokedUrls, now,
          archive, extracted, compared, preload, containerScrollTop, lastOp>>

NULL == "null"

\* The values of an absent comic, an absent stored record and the
\* dependencies of an effect that has not run yet.
NoComic == [id |-> NULL, pages |-> <<>>, totalPages |-> 0, currentPage |-> 0]
NoProgress == [c \in {} |-> 0]
NoDeps == <<>>
NoPreload == [startIndex |-> 0, count |-> 0, requested |-> <<>>, outcomes |-> <<>>,
              result |-> "none"]

-----------------------------------------------------------------------------
(* Bounds of the model.                                                    *)

MaxPages == 4           \* pages of the longest comic of a session
MaxOpenCalls == 2       \* downloadAndOpenComic calls made in one run
MaxUrls == 6            \* object URLs handed out in one run
MaxTime == 2            \* last value of the clock: new Date() calls in one run
MaxSettingsSaves == 2   \* saveReadingSettings calls in flight at once
PageHeight == 2         \* rendered height of a page in the continuous column
ViewportHeight == 2     \* clientHeight of the continuous scroll container
LibraryPages == 2       \* image entries in the largest archive of the library
MaxFailed == 1          \* entries of one archive whose read fails
MaxEntries == 4         \* entries of an archive extracted on its own
ImgWidth == 4           \* rendered width of a page image
ImgHeight == 2          \* rendered height of a page image
FarDrag == 50           \* a drag offset beyond every bound
MaxZoomDen == 2         \* largest denominator of a zoom set by Ctrl+wheel

-----------------------------------------------------------------------------
(* Exact rational arithmetic for the zoom factor and the pan offset.       *)

RECURSIVE GCD(_, _)
GCD(a, b) == IF b = 0 THEN a ELSE GCD(b, a % b)

Abs(n) == IF n < 0 THEN -n ELSE n

Rat(n, d) ==
    LET g == GCD(Abs(n), Abs(d))
        s == IF d < 0 THEN -1 ELSE 1
    IN  <<(s * n) \div g, (s * d) \div g>>

RatInt(n) == <<n, 1>>
RatMul(a, b) == Rat(a[1] * b[1], a[2] * b[2])
RatAdd(a, b) == Rat(a[1] * b[2] + b[1] * a[2], a[2] * b[2])
RatSub(a, b) == Rat(a[1] * b[2] - b[1] * a[2], a[2] * b[2])
RatNeg(a) == <<-a[1], a[2]>>
RatAbs(a) == <<Abs(a[1]), a[2]>>
RatLE(a, b) == a[1] * b[2] <= b[1] * a[2]
RatLT(a, b) == a[1] * b[2] < b[1] * a[2]
RatMin(a, b) == IF RatLE(a, b) THEN a ELSE b
RatMax(a, b) == IF RatLE(a, b) THEN b ELSE a

Half == <<1, 2>>
One == <<1, 1>>
Five == <<5, 1>>
Origin == [x |-> <<0, 1>>, y |-> <<0, 1>>]


-----------------------------------------------------------------------------
(* Strings are sequences of one-character strings.                         *)

Digits == <<"0", "1", "2", "3", "4", "5", "6", "7", "8", "9">>
Lower == <<"a", "b", "c", "d", "e", "f", "g", "h", "i", "j", "k", "l", "m",
           "n", "o", "p", "q", "r", "s", "t", "u", "v", "w", "x", "y", "z">>
Upper == <<"A", "B", "C", "D", "E", "F", "G", "H", "I", "J", "K", "L", "M",
           "N", "O", "P", "Q", "R", "S", "T", "U", "V", "W", "X", "Y", "Z">>
\* Punctuation in the order of the root collation, before digits and letters.
Punct == <<" ", "_", "-", ".", "/">>

\* The character U+00B2, SUPERSCRIPT TWO: not matched by \d, and collated as
\* a variant of the digit 2.
SuperscriptTwo == "^2"

Range(f) == {f[i] : i \in DOMAIN f}
IndexIn(c, seq) == CHOOSE i \in DOMAIN seq : seq[i] = c

IsDigit(c) == c \in Range(Digits)
DigitValue(c) == IndexIn(c, Digits) - 1

\* String.prototype.toLowerCase, one character.
LowerChar(c) == IF c \in Range(Upper) THEN Lower[IndexIn(c, Upper)] ELSE c
toLowerCase(str) == [i \in DOMAIN str |-> LowerChar(str[i])]

\* String.prototype.lastIndexOf(c): 0-based, -1 when c does not occur.
lastIndexOf(str, c) ==
    IF \E i \in DOMAIN str : str[i] = c
    THEN (CHOOSE i \in DOMAIN str :
              str[i] = c /\ \A j \in DOMAIN str : str[j] = c => j <= i) - 1
    ELSE -1

\* String.prototype.substring(start): a negative start counts as 0.
substring(str, start) ==
    LET from == IF start < 0 THEN 0 ELSE start
    IN  IF from >= Len(str) THEN <<>> ELSE SubSeq(str, from + 1, Len(str))

-----------------------------------------------------------------------------
(* ComicService: isImageFile and naturalSort.                              *)

imageExtensions ==
    {<<".", "j", "p", "g">>, <<".", "j", "p", "e", "g">>, <<".", "p", "n", "g">>,
     <<".", "g", "i", "f">>, <<".", "b", "m", "p">>, <<".", "w", "e", "b", "p">>}

\* An extension test that tells upper case from lower case.
isListedExtension(fileName) ==
    substring(fileName, lastIndexOf(fileName, ".")) \in imageExtensions

isImageFile(fileName) ==
    substring(toLowerCase(fileName), lastIndexOf(fileName, ".")) \in imageExtensions

\* a.match(/(\d+)|(\D+)/g) || []: the maximal digit and non-digit runs, in order.
RECURSIVE RunEnd(_, _)
RunEnd(str, i) ==
    IF i < Len(str) /\ IsDigit(str[i + 1]) = IsDigit(str[i])
    THEN RunEnd(str, i + 1) ELSE i

RECURSIVE PartsFrom(_, _)
PartsFrom(str, i) ==
    IF i > Len(str) THEN <<>>
    ELSE <<SubSeq(str, i, RunEnd(str, i))>> \o PartsFrom(str, RunEnd(str, i) + 1)

Parts(str) == PartsFrom(str, 1)

\* /^\d+$/.test(part)
AllDigits(part) == Len(part) > 0 /\ \A i \in DOMAIN part : IsDigit(part[i])

\* parseInt(part, 10) of a digit run (exact: the runs of the model are short).
RECURSIVE parseInt(_)
parseInt(part) ==
    IF Len(part) = 0 THEN 0
    ELSE 10 * parseInt(SubSeq(part, 1, Len(part) - 1)) + DigitValue(part[Len(part)])

\* String.prototype.localeCompare under the root collation: punctuation, then
\* digits, then letters, compared without case first; among strings equal
\* without case, a lower-case letter sorts before its upper-case letter at the
\* first difference, and a digit before its superscript.
BaseChar(c) == IF c = SuperscriptTwo THEN "2" ELSE LowerChar(c)
PrimaryWeight(c) == IndexIn(BaseChar(c), Punct \o Digits \o Lower)

RECURSIVE ComparePrimary(_, _, _)
ComparePrimary(x, y, i) ==
    IF i > Len(x) /\ i > Len(y) THEN 0
    ELSE IF i > Len(x) THEN -1
    ELSE IF i > Len(y) THEN 1
    ELSE IF PrimaryWeight(x[i]) < PrimaryWeight(y[i]) THEN -1
    ELSE IF PrimaryWeight(x[i]) > PrimaryWeight(y[i]) THEN 1
    ELSE ComparePrimary(x, y, i + 1)

RECURSIVE CompareCase(_, _, _)
CompareCase(x, y, i) ==
    IF i > Len(x) THEN 0
    ELSE IF x[i] = y[i] THEN CompareCase(x, y, i + 1)
    ELSE IF x[i] \in Range(Lower) \cup Range(Digits) THEN -1 ELSE 1

localeCompare(x, y) ==
    IF ComparePrimary(x, y, 1) # 0 THEN ComparePrimary(x, y, 1)
    ELSE CompareCase(x, y, 1)

\* A missing part read as a letter.
partOrLetter(parts, i) == IF i <= Len(parts) THEN parts[i] ELSE <<"z">>

PartAt(parts, i) == IF i <= Len(parts) THEN parts[i] ELSE <<>>

\* A comparison of two parts that takes digit runs for text.
lexicalComparePart(aPart, bPart) == localeCompare(aPart, bPart)

ComparePart(aPart, bPart) ==
    IF AllDigits(aPart) /\ AllDigits(bPart)
    THEN parseInt(aPart) - parseInt(bPart)
    ELSE localeCompare(aPart, bPart)

RECURSIVE naturalSortFrom(_, _, _)
naturalSortFrom(aParts, bParts, i) ==
    IF i > Len(aParts) /\ i > Len(bParts) THEN 0
    ELSE IF ComparePart(PartAt(aParts, i), PartAt(bParts, i)) # 0
         THEN ComparePart(PartAt(aParts, i), PartAt(bParts, i))
         ELSE naturalSortFrom(aParts, bParts, i + 1)

naturalSort(a, b) == naturalSortFrom(Parts(a), Parts(b), 1)

-----------------------------------------------------------------------------
(* Array.prototype.sort(naturalSort).  The sort is stable; with a comparator *)
(* that is not a consistent ordering of the elements the order of the       *)
(* result is implementation-defined.                                        *)

Sign(n) == IF n < 0 THEN -1 ELSE IF n > 0 THEN 1 ELSE 0

\* The comparator orders names consistently: comparing b with a gives the
\* opposite sign of comparing a with b, and "not greater" is transitive.
ConsistentOn(names) ==
    /\ \A a, b \in names : Sign(naturalSort(a, b)) = -Sign(naturalSort(b, a))
    /\ \A a, b \in names :
          naturalSort(a, b) <= 0 =>
             \A c \in names : naturalSort(b, c) <= 0 => naturalSort(a, c) <= 0

Orderings(seq) ==
    {p \in [DOMAIN seq -> Range(seq)] :
        \A x \in Range(seq) :
            Cardinality({i \in DOMAIN seq : p[i] = x})
              = Cardinality({i \in DOMAIN seq : seq[i] = x})}

\* x put into sorted behind every element that does not compare greater.
RECURSIVE InsertSorted(_, _)
InsertSorted(x, sorted) ==
    IF sorted = <<>> THEN <<x>>
    ELSE IF naturalSort(sorted[Len(sorted)], x) <= 0
         THEN Append(sorted, x)
         ELSE Append(InsertSorted(x, SubSeq(sorted, 1, Len(sorted) - 1)), sorted[Len(sorted)])

RECURSIVE StableSort(_)
StableSort(seq) ==
    IF seq = <<>> THEN <<>>
    ELSE InsertSorted(seq[Len(seq)], StableSort(SubSeq(seq, 1, Len(seq) - 1)))

\* What imageFiles.sort(naturalSort) can leave in the array.
SortResults(seq) ==
    IF ConsistentOn(Range(seq)) THEN {StableSort(seq)} ELSE Orderings(seq)

-----------------------------------------------------------------------------
(* ComicService.extractPagesFromCBR.                                       *)

\* Object.keys(zipFile.files).filter(...): names of the image entries that
\* are not directory markers, in container order.
IsPageEntry(entry) == ~entry.dir /\ isImageFile(entry.name)

imageFileNames(entries) ==
    LET kept == SelectSeq(entries, IsPageEntry)
    IN  [i \in DOMAIN kept |-> kept[i].name]

\* A page numbered from 1, as a 1-based loop would make it.
pageNumberedFromOne(comicId, i, blob, url) ==
    [id |-> <<comicId, "-page-", i + 1>>, blob |-> blob, url |-> url, index |-> i + 1]

\* A page numbered by the pages made before it, where no object URL was in
\* use when the extraction began.
pageRenumbered(comicId, i, blob, url) ==
    [id |-> <<comicId, "-page-", url - 1>>, blob |-> blob, url |-> url, index |-> url - 1]

\* pages.push({ id: `${comicId}-page-${i}`, blob, url, index: i })
newPage(comicId, i, blob, url) ==
    [id |-> <<comicId, "-page-", i>>, blob |-> blob, url |-> url, index |-> i]

\* The loop over imageFiles: entry i (0-based) becomes a page unless reading
\* it failed; the k-th page made gets object URL urlBase + k.
RECURSIVE pagesFrom(_, _, _, _, _)
pagesFrom(imageFiles, comicId, failed, i, url) ==
    IF i >= Len(imageFiles) THEN <<>>
    ELSE IF i \in failed
         THEN pagesFrom(imageFiles, comicId, failed, i + 1, url)
         ELSE <<newPage(comicId, i, imageFiles[i + 1], url + 1)>>
              \o pagesFrom(imageFiles, comicId, failed, i + 1, url + 1)

\* Every result extractPagesFromCBR(entries, comicId) can return when
\* urlBase object URLs are in use and the reads that fail are one of the sets
\* in failures: imageFiles.sort(naturalSort), then the loop.
extractPagesFromCBR(entries, comicId, failures, urlBase) ==
    {pagesFrom(imageFiles, comicId, failed, 0, urlBase) :
        imageFiles \in SortResults(imageFileNames(entries)), failed \in failures}

\* The sets of image entries whose read can fail in one extraction.
Failures(entries) ==
    {f \in SUBSET (0 .. Len(imageFileNames(entries)) - 1) : Cardinality(f) <= MaxFailed}

-----------------------------------------------------------------------------
(* Values.                                                                 *)

Comics == {"A", "B"}

DefaultSettings ==
    [fitMode |-> "width", pageLayout |-> "single", readingDirection |-> "ltr",
     backgroundColor |-> "#000000", showProgress |-> TRUE]

PageLayouts == {"single", "double", "continuous"}
ReadingDirections == {"ltr", "rtl"}

ReaderMounted == currentState = "reader" /\ currentComic.id # NULL

isContinuousMode == readingSettings.pageLayout = "continuous"

-----------------------------------------------------------------------------
(* ComicReader.tsx: zoom and pan.                                          *)

\* A zoom target taken as requested, with no limits applied.
Unclamped(z) == z

\* Math.max(0.5, Math.min(5, z))
ClampZoom(z) == RatMax(Half, RatMin(Five, z))

\* Math.min(5, zoom * 1.5)
ZoomInTarget(z) == RatMin(Five, RatMul(z, <<3, 2>>))

\* Math.max(0.5, zoom / 1.5)
ZoomOutTarget(z) == RatMax(Half, RatMul(z, <<2, 3>>))

\* zoom - dy * 0.001, clamped
WheelTarget(z, dy) == ClampZoom(RatSub(z, Rat(dy, 1000)))

\* A zoom operation that never touches the pan offset.
KeepPan(newZoom) == position

\* The pan offset a zoom operation leaves when it ends at newZoom.
PanAfterZoom(newZoom) == IF RatLE(newZoom, One) THEN Origin ELSE position

\* drag: { bounds: () => ... }: half extents of the allowed offset.
dragBounds ==
    IF RatLE(zoom, One) \/ isContinuousMode
    THEN [x |-> <<0, 1>>, y |-> <<0, 1>>]
    ELSE [x |-> RatMul(RatMul(RatSub(zoom, One), RatInt(ImgWidth)), Half),
          y |-> RatMul(RatMul(RatSub(zoom, One), RatInt(ImgHeight)), Half)]

\* The gesture library keeps the offset it reports inside the bounds.
ClampTo(v, b) == RatMax(RatNeg(b), RatMin(b, v))

DragOffsets == {<<FarDrag, -FarDrag>>, <<1, 0>>}
PinchScales == {<<1, 4>>, <<3, 1>>, <<6, 1>>}
WheelDeltas == {-5000, 500, 5000}

Stamp(op) == lastOp' = op

notScroll == <<currentState, accessToken, selectedFolder, currentComic,
               readingSettings, pending, downloadingComics, error, opens, savedDeps,
               comicProgress, saves, storedSettings, settingsSaves,
               objectUrls, revokedUrls, now, archive, extracted, compared, preload>>

notView == <<notScroll, containerScrollTop>>

\* A view that stays as it is.
keepViewState == UNCHANGED <<zoom, position>>

resetViewState == zoom' = One /\ position' = Origin

resetView ==
    /\ ReaderMounted
    /\ resetViewState
    /\ Stamp("resetView")
    /\ UNCHANGED <<currentPageIndex, loadedImages, imageErrors, notView>>

\* A zoomIn that pays no attention to the page layout.
zoomInAnyLayout ==
    /\ ReaderMounted
    /\ zoom' = ZoomInTarget(zoom) /\ UNCHANGED position
    /\ Stamp("zoomIn")
    /\ UNCHANGED <<currentPageIndex, loadedImages, imageErrors, notView>>

zoomIn ==
    /\ ReaderMounted
    /\ IF isContinuousMode
       THEN UNCHANGED <<zoom, position>>
       ELSE zoom' = ZoomInTarget(zoom) /\ UNCHANGED position
    /\ Stamp("zoomIn")
    /\ UNCHANGED <<currentPageIndex, loadedImages, imageErrors, notView>>

zoomOut ==
    /\ ReaderMounted
    /\ IF isContinuousMode
       THEN UNCHANGED <<zoom, position>>
       ELSE /\ zoom' = ZoomOutTarget(zoom)
            /\ position' = PanAfterZoom(ZoomOutTarget(zoom))
    /\ Stamp("zoomOut")
    /\ UNCHANGED <<currentPageIndex, loadedImages, imageErrors, notView>>

onPinch(scale) ==
    /\ ReaderMounted
    /\ IF isContinuousMode
       THEN UNCHANGED <<zoom, position>>
       ELSE /\ zoom' = ClampZoom(scale)
            /\ position' = PanAfterZoom(ClampZoom(scale))
    /\ Stamp("onPinch")
    /\ UNCHANGED <<currentPageIndex, loadedImages, imageErrors, notView>>

onWheel(dy, ctrlKey) ==
    /\ ReaderMounted
    /\ WheelTarget(zoom, dy)[2] <= MaxZoomDen
    /\ IF isContinuousMode \/ ~ctrlKey
       THEN UNCHANGED <<zoom, position>>
       ELSE /\ zoom' = WheelTarget(zoom, dy)
            /\ position' = PanAfterZoom(WheelTarget(zoom, dy))
    /\ Stamp("onWheel")
    /\ UNCHANGED <<currentPageIndex, loadedImages, imageErrors, notView>>

onDrag(offset, pinching) ==
    /\ ReaderMounted
    /\ IF pinching \/ RatLE(zoom, One) \/ isContinuousMode
       THEN UNCHANGED position
       ELSE position' = [x |-> ClampTo(RatInt(offset[1]), dragBounds.x),
                         y |-> ClampTo(RatInt(offset[2]), dragBounds.y)]
    /\ Stamp("onDrag")
    /\ UNCHANGED <<currentPageIndex, zoom, loadedImages, imageErrors, notView>>

-----------------------------------------------------------------------------
(* ComicReader.tsx: page navigation.                                       *)

\* A "next" that wraps around at the last page.
wrappingTarget == (currentPageIndex + 1) % currentComic.totalPages

\* A "previous" that goes backward whatever the reading direction.
backwardTarget ==
    IF currentPageIndex > 0 THEN currentPageIndex - 1 ELSE currentPageIndex

\* The cursor the "next" action asks for, or the current one at a boundary.
nextPageTarget ==
    IF readingSettings.readingDirection = "rtl"
    THEN IF currentPageIndex > 0 THEN currentPageIndex - 1 ELSE currentPageIndex
    ELSE IF currentPageIndex < currentComic.totalPages - 1
         THEN currentPageIndex + 1 ELSE currentPageIndex

previousPageTarget ==
    IF readingSettings.readingDirection = "rtl"
    THEN IF currentPageIndex < currentComic.totalPages - 1
         THEN currentPageIndex + 1 ELSE currentPageIndex
    ELSE IF currentPageIndex > 0 THEN currentPageIndex - 1 ELSE currentPageIndex

\* A page turn that pays no attention to the page layout.
turnInAnyLayout(target) ==
    IF target = currentPageIndex
    THEN UNCHANGED <<currentPageIndex, zoom, position>>
    ELSE currentPageIndex' = target /\ resetViewState

\* setCurrentPageIndex(target); resetView() -- only when the page changes.
turnTo(target) ==
    IF isContinuousMode \/ target = currentPageIndex
    THEN UNCHANGED <<currentPageIndex, zoom, position>>
    ELSE currentPageIndex' = target /\ resetViewState

nextPage ==
    /\ ReaderMounted
    /\ turnTo(nextPageTarget)
    /\ Stamp("nextPage")
    /\ UNCHANGED <<loadedImages, imageErrors, notView>>

previousPage ==
    /\ ReaderMounted
    /\ turnTo(previousPageTarget)
    /\ Stamp("previousPage")
    /\ UNCHANGED <<loadedImages, imageErrors, notView>>


\* The scroll listener of continuous mode: the first page whose vertical
\* extent contains the centre of the viewport becomes the cursor.  Page i
\* spans [i * PageHeight, (i + 1) * PageHeight]; heights are doubled so that
\* the centre scrollTop + clientHeight / 2 stays an integer.
centred(scrollTop) ==
    {i \in 0 .. Len(currentComic.pages) - 1 :
        /\ 2 * scrollTop + ViewportHeight >= 2 * i * PageHeight
        /\ 2 * scrollTop + ViewportHeight <= 2 * (i + 1) * PageHeight}

\* The last of the pages that contain the centre.
lastCentred(scrollTop) ==
    CHOOSE i \in centred(scrollTop) : \A j \in centred(scrollTop) : i >= j

firstCentred(scrollTop) ==
    CHOOSE i \in centred(scrollTop) : \A j \in centred(scrollTop) : i <= j

ScrollTops ==
    IF ~ReaderMounted THEN {}
    ELSE 0 .. (IF Len(currentComic.pages) * PageHeight > ViewportHeight
               THEN Len(currentComic.pages) * PageHeight - ViewportHeight ELSE 0)

handleScroll(scrollTop) ==
    /\ ReaderMounted
    /\ isContinuousMode
    /\ currentPageIndex' =
         IF centred(scrollTop) = {} THEN currentPageIndex ELSE firstCentred(scrollTop)
    /\ containerScrollTop' = scrollTop
    /\ Stamp("handleScroll")
    /\ UNCHANGED <<zoom, position, loadedImages, imageErrors, notScroll>>

\* The page images on screen: the current page, or every page in continuous mode.
shownPages ==
    IF isContinuousMode THEN 0 .. Len(currentComic.pages) - 1
    ELSE {currentPageIndex} \cap (0 .. Len(currentComic.pages) - 1)

handleImageLoad(pageIndex) ==
    /\ ReaderMounted
    /\ pageIndex \in shownPages
    /\ loadedImages' = loadedImages \cup {pageIndex}
    /\ Stamp("handleImageLoad")
    /\ UNCHANGED <<currentPageIndex, zoom, position, imageErrors, notView>>

handleImageError(pageIndex) ==
    /\ ReaderMounted
    /\ pageIndex \in shownPages
    /\ imageErrors' = imageErrors \cup {pageIndex}
    /\ Stamp("handleImageError")
    /\ UNCHANGED <<currentPageIndex, zoom, position, loadedImages, notView>>

\* A retry that forgets what is known of every page.
retryAll(pageIndex) ==
    /\ ReaderMounted
    /\ pageIndex \in shownPages
    /\ pageIndex \in imageErrors
    /\ imageErrors' = {}
    /\ loadedImages' = {}
    /\ Stamp("retryImage")
    /\ UNCHANGED <<currentPageIndex, zoom, position, notView>>

\* The Retry button of a page in the error set.
retryImage(pageIndex) ==
    /\ ReaderMounted
    /\ pageIndex \in shownPages
    /\ pageIndex \in imageErrors
    /\ imageErrors' = imageErrors \ {pageIndex}
    /\ loadedImages' = loadedImages \ {pageIndex}
    /\ Stamp("retryImage")
    /\ UNCHANGED <<currentPageIndex, zoom, position, notView>>

-----------------------------------------------------------------------------
(* App.tsx: which components are on screen, and what a change of the App   *)
(* state does to them.  A component that leaves the screen loses its state; *)
(* one that enters it starts from its useState initial values.  Calls of a  *)
(* Library instance that is gone still run to their end, but their setError *)
(* and setDownloadingComics no longer reach any state: they are orphaned.   *)

LibraryMounted ==
    currentState = "library" /\ accessToken # NULL /\ selectedFolder # NULL

RemoveAt(seq, i) == SubSeq(seq, 1, i - 1) \o SubSeq(seq, i + 1, Len(seq))

InFlight(call) == call.pc \notin {"returned", "threw"}

Orphaned(calls) ==
    [i \in DOMAIN calls |->
        IF InFlight(calls[i]) THEN [calls[i] EXCEPT !.orphan = TRUE] ELSE calls[i]]

\* The App state becomes (state, token, folder, comic); calls is the record
\* of downloadAndOpenComic calls afterwards.
appStep(state, token, folder, comic, calls) ==
    /\ currentState' = state
    /\ accessToken' = token
    /\ selectedFolder' = folder
    /\ currentComic' = comic
    /\ IF LibraryMounted /\ state = "library" /\ token # NULL /\ folder # NULL
       THEN /\ opens' = calls
            /\ UNCHANGED <<downloadingComics, error>>
       ELSE /\ opens' = Orphaned(calls)
            /\ downloadingComics' = {}
            /\ error' = NULL
    /\ IF state = "reader" /\ comic.id # NULL
       THEN IF ReaderMounted
            THEN UNCHANGED <<viewVars, savedDeps>>
            ELSE /\ currentPageIndex' = comic.currentPage
                 /\ zoom' = One
                 /\ position' = Origin
                 /\ loadedImages' = {}
                 /\ imageErrors' = {}
                 /\ savedDeps' = NoDeps
       ELSE /\ currentPageIndex' = 0
            /\ zoom' = One
            /\ position' = Origin
            /\ loadedImages' = {}
            /\ imageErrors' = {}
            /\ savedDeps' = NoDeps

notApp == <<readingSettings, comicProgress, saves, storedSettings,
            settingsSaves, objectUrls, revokedUrls, now, archive, extracted, compared, preload, containerScrollTop>>

handleLoginSuccess ==
    /\ currentState = "login"
    /\ appStep(currentState, "token", selectedFolder, currentComic, opens)
    /\ pending' = pending \cup {"handleLoginSuccess"}
    /\ Stamp("none")
    /\ UNCHANGED notApp

\* ... await storageService.saveAccessToken(token) has returned
loginSaved ==
    /\ "handleLoginSuccess" \in pending
    /\ appStep("folder-picker", accessToken, selectedFolder, currentComic, opens)
    /\ pending' = pending \ {"handleLoginSuccess"}
    /\ Stamp("none")
    /\ UNCHANGED notApp

handleFolderSelected ==
    /\ currentState = "folder-picker"
    /\ accessToken # NULL
    /\ appStep(currentState, accessToken, "folder", currentComic, opens)
    /\ pending' = pending \cup {"handleFolderSelected"}
    /\ Stamp("none")
    /\ UNCHANGED notApp

\* ... await storageService.saveSelectedFolder(folderId) has returned
folderSaved ==
    /\ "handleFolderSelected" \in pending
    /\ appStep("library", accessToken, selectedFolder, currentComic, opens)
    /\ pending' = pending \ {"handleFolderSelected"}
    /\ Stamp("none")
    /\ UNCHANGED notApp

\* The Logout button of the Library, the Back button of the FolderPicker.
handleLogout ==
    /\ LibraryMounted \/ (currentState = "folder-picker" /\ accessToken # NULL)
    /\ pending' = pending \cup {"handleLogout"}
    /\ Stamp("none")
    /\ UNCHANGED <<appVars, libraryVars, viewVars, savedDeps, notApp>>

\* ... await storageService.clearAccessToken() has returned
tokenCleared ==
    /\ "handleLogout" \in pending
    /\ appStep("login", NULL, NULL, NoComic, opens)
    /\ pending' = pending \ {"handleLogout"}
    /\ Stamp("none")
    /\ UNCHANGED notApp

handleOpenSettings ==
    /\ LibraryMounted
    /\ appStep("settings", accessToken, selectedFolder, currentComic, opens)
    /\ Stamp("none")
    /\ UNCHANGED <<pending, notApp>>

handleBackFromSettings ==
    /\ currentState = "settings"
    /\ appStep(IF currentComic.id # NULL THEN "reader" ELSE "library",
               accessToken, selectedFolder, currentComic, opens)
    /\ Stamp("none")
    /\ UNCHANGED <<pending, notApp>>

\* onBack of the reader.
handleCloseComic ==
    /\ ReaderMounted
    /\ appStep("library", accessToken, selectedFolder, NoComic, opens)
    /\ Stamp("none")
    /\ UNCHANGED <<pending, notApp>>

\* onSettingsChange of the reader and of the settings page: one field of the
\* settings changes, and the new settings are saved.
handleSettingsChange(newSettings) ==
    /\ ReaderMounted \/ currentState = "settings"
    /\ Len(settingsSaves) < MaxSettingsSaves
    /\ readingSettings' = newSettings
    /\ settingsSaves' = Append(settingsSaves, newSettings)
    /\ Stamp("none")
    /\ UNCHANGED <<appVars, pending, libraryVars, viewVars, savedDeps, comicProgress,
                   saves, storedSettings, objectUrls, revokedUrls, now,
                   archive, extracted, compared, preload, containerScrollTop>>

\* A read of the settings that never looks at the store.
alwaysDefaults == DefaultSettings

\* StorageService.getReadingSettings(): the stored settings, or the defaults
\* written out in the function.
getReadingSettings ==
    IF storedSettings # <<>> THEN storedSettings[1]
    ELSE [fitMode |-> "width", pageLayout |-> "single", readingDirection |-> "ltr",
          backgroundColor |-> "#000000", showProgress |-> TRUE]

\* localforage.setItem("reading_settings", settings) takes effect.
saveReadingSettings(i) ==
    /\ i \in DOMAIN settingsSaves
    /\ storedSettings' = <<settingsSaves[i]>>
    /\ settingsSaves' = RemoveAt(settingsSaves, i)
    /\ Stamp("none")
    /\ UNCHANGED <<appVars, readingSettings, pending, libraryVars, viewVars, savedDeps,
                   comicProgress, saves, objectUrls, revokedUrls, now,
                   archive, extracted, compared, preload, containerScrollTop>>

\* The Clear Cache button of the settings page: localforage.clear().
clearCache ==
    /\ currentState = "settings"
    /\ comicProgress' = NoProgress
    /\ storedSettings' = <<>>
    /\ Stamp("none")
    /\ UNCHANGED <<appVars, readingSettings, pending, libraryVars, viewVars, savedDeps,
                   saves, settingsSaves, objectUrls, revokedUrls, now, archive, extracted, compared, preload, containerScrollTop>>

-----------------------------------------------------------------------------
(* Library.tsx: downloadAndOpenComic, one step per await.                  *)

\* The archive behind each comic of the library: comic A has LibraryPages
\* page images and a text file, comic B has one page image fewer.
PageName(i) == <<Digits[i + 1], ".", "j", "p", "g">>

ArchiveOf(id) ==
    LET n == IF id = "A" THEN LibraryPages ELSE LibraryPages - 1
    IN  [i \in 1 .. n |-> [name |-> PageName(n + 1 - i), dir |-> FALSE]]
        \o <<[name |-> <<"i", "n", "f", "o", ".", "t", "x", "t">>, dir |-> FALSE]>>

notOpen == <<readingSettings, pending, comicProgress, saves, storedSettings,
             settingsSaves, revokedUrls, now, archive, extracted, compared, preload, containerScrollTop>>

\* The Read button of a comic of the library.
downloadAndOpenComic(id) ==
    /\ LibraryMounted
    /\ Len(opens) < MaxOpenCalls
    /\ IF id \in downloadingComics
       THEN UNCHANGED <<downloadingComics, opens>>
       ELSE /\ downloadingComics' = downloadingComics \cup {id}
            /\ opens' = Append(opens, [id |-> id, pc |-> "downloadFile", orphan |-> FALSE,
                                       pages |-> <<>>, currentPage |-> 0])
    /\ Stamp("none")
    /\ UNCHANGED <<appVars, error, viewVars, savedDeps, objectUrls, notOpen>>

\* driveService.downloadFile returned the bytes.
downloadFileDone(i) ==
    /\ i \in DOMAIN opens
    /\ opens[i].pc = "downloadFile"
    /\ opens' = [opens EXCEPT ![i].pc = "extractPagesFromCBR"]
    /\ Stamp("none")
    /\ UNCHANGED <<appVars, downloadingComics, error, viewVars, savedDeps,
                   objectUrls, notOpen>>

\* extractPagesFromCBR returned pages, with one new object URL for each.
extractPagesDone(i, pages) ==
    /\ i \in DOMAIN opens
    /\ opens[i].pc = "extractPagesFromCBR"
    /\ objectUrls + Len(pages) <= MaxUrls
    /\ opens' = [opens EXCEPT ![i].pc = "getComicProgress", ![i].pages = pages]
    /\ objectUrls' = objectUrls + Len(pages)
    /\ Stamp("none")
    /\ UNCHANGED <<appVars, downloadingComics, error, viewVars, savedDeps,
                   notOpen>>

\* A read of a store in which no progress is ever found.
nothingStored(allProgress, comicId) == <<>>

\* allProgress[comicId] || null, the result <<>> standing for null and
\* <<progress>> for a record.
progressIn(allProgress, comicId) ==
    IF comicId \in DOMAIN allProgress THEN <<allProgress[comicId]>> ELSE <<>>

\* StorageService.getComicProgress(comicId), on the "comic_progress" record.
getComicProgress(comicId) == progressIn(comicProgress, comicId)

\* storageService.getComicProgress returned the stored progress, or null.
getComicProgressDone(i) ==
    /\ i \in DOMAIN opens
    /\ opens[i].pc = "getComicProgress"
    /\ opens' = [opens EXCEPT
                   ![i].pc = "saveComic",
                   ![i].currentPage = IF getComicProgress(opens[i].id) # <<>>
                                      THEN getComicProgress(opens[i].id)[1].currentPage
                                      ELSE 0]
    /\ Stamp("none")
    /\ UNCHANGED <<appVars, downloadingComics, error, viewVars, savedDeps,
                   objectUrls, notOpen>>

updatedComic(call) ==
    [id |-> call.id, pages |-> call.pages, totalPages |-> Len(call.pages),
     currentPage |-> call.currentPage]

\* storageService.saveComic returned; onOpenComic(updatedComic), which is
\* handleOpenComic of the App; then the finally block.
handleOpenComic(i) ==
    /\ i \in DOMAIN opens
    /\ opens[i].pc = "saveComic"
    /\ appStep("reader", accessToken, selectedFolder, updatedComic(opens[i]),
               [opens EXCEPT ![i].pc = "returned"])
    /\ Stamp("none")
    /\ UNCHANGED <<objectUrls, notOpen>>

\* An await of downloadAndOpenComic threw: the catch block and the finally
\* block.  downloadFile throws on a response that is not ok,
\* extractPagesFromCBR on bytes that are no ZIP container.
openFailed(i) ==
    /\ i \in DOMAIN opens
    /\ opens[i].pc \in {"downloadFile", "extractPagesFromCBR"}
    /\ IF opens[i].orphan
       THEN UNCHANGED <<error, downloadingComics>>
       ELSE /\ error' = "Failed to open comic. Please try again."
            /\ downloadingComics' = downloadingComics \ {opens[i].id}
    /\ opens' = [opens EXCEPT ![i].pc = "threw"]
    /\ Stamp("none")
    /\ UNCHANGED <<appVars, viewVars, savedDeps, objectUrls, notOpen>>

-----------------------------------------------------------------------------
(* The saveProgress effect of the reader and StorageService.saveComicProgress. *)

\* Dependencies that leave the cursor out.
comicDeps == <<0, currentComic.id>>

effectDeps == <<currentPageIndex, currentComic.id>>

effectPending == ReaderMounted /\ savedDeps # effectDeps

\* useEffect(..., [currentPageIndex, comic.id]): runs after the first render
\* and after every render in which a dependency changed.
saveProgressEffect ==
    /\ effectPending
    /\ now < MaxTime
    /\ saves' = Append(saves, [id |-> currentComic.id,
                               progress |-> [currentPage |-> currentPageIndex,
                                             lastRead |-> now],
                               pc |-> "getItem",
                               allProgress |-> NoProgress])
    /\ savedDeps' = effectDeps
    /\ now' = now + 1
    /\ Stamp("none")
    /\ UNCHANGED <<appVars, readingSettings, pending, libraryVars, viewVars,
                   comicProgress, storedSettings, settingsSaves,
                   objectUrls, revokedUrls, archive, extracted, compared, preload, containerScrollTop>>

\* saveComicProgress: localforage.getItem("comic_progress") returned, and
\* allProgress[comicId] = progress.
saveGetItem(i) ==
    /\ i \in DOMAIN saves
    /\ saves[i].pc = "getItem"
    /\ saves' = [saves EXCEPT
                   ![i].pc = "setItem",
                   ![i].allProgress = [c \in DOMAIN comicProgress \cup {saves[i].id} |->
                                       IF c = saves[i].id THEN saves[i].progress
                                       ELSE comicProgress[c]]]
    /\ Stamp("none")
    /\ UNCHANGED <<appVars, readingSettings, pending, libraryVars, viewVars, savedDeps,
                   comicProgress, storedSettings, settingsSaves,
                   objectUrls, revokedUrls, now, archive, extracted, compared, preload, containerScrollTop>>

\* saveComicProgress: localforage.setItem("comic_progress", allProgress) takes effect.
saveSetItem(i) ==
    /\ i \in DOMAIN saves
    /\ saves[i].pc = "setItem"
    /\ comicProgress' = saves[i].allProgress
    /\ saves' = RemoveAt(saves, i)
    /\ Stamp("none")
    /\ UNCHANGED <<appVars, readingSettings, pending, libraryVars, viewVars, savedDeps,
                   storedSettings, settingsSaves,
                   objectUrls, revokedUrls, now, archive, extracted, compared, preload, containerScrollTop>>

\* ComicService.cleanupPageUrls(pages): revoke the object URL of every page.
\* No component calls it.
cleanupPageUrls(pages) ==
    revokedUrls' = revokedUrls \o [i \in DOMAIN pages |-> pages[i].url]

-----------------------------------------------------------------------------
(* The application from its first render.                                  *)

Started(entries) ==
    /\ currentState = "login"
    /\ accessToken = NULL
    /\ selectedFolder = NULL
    /\ currentComic = NoComic
    /\ readingSettings = DefaultSettings
    /\ pending = {}
    /\ downloadingComics = {}
    /\ error = NULL
    /\ opens = <<>>
    /\ currentPageIndex = 0
    /\ zoom = One
    /\ position = Origin
    /\ loadedImages = {}
    /\ imageErrors = {}
    /\ savedDeps = NoDeps
    /\ comicProgress = NoProgress
    /\ saves = <<>>
    /\ storedSettings = <<>>
    /\ settingsSaves = <<>>
    /\ objectUrls = 0
    /\ revokedUrls = <<>>
    /\ now = 0
    /\ archive = entries
    /\ extracted = <<>>
    /\ compared = <<>>
    /\ preload = NoPreload
    /\ containerScrollTop = 0
    /\ lastOp = "init"

Init == Started(<<>>)

\* The calls whose extraction is under way.
Extracting == {i \in DOMAIN opens : opens[i].pc = "extractPagesFromCBR"}

\* Event handlers and continuations run once the effects of the last render
\* have run.
Idle == ~effectPending

Next ==
    \/ saveProgressEffect
    \/ Idle /\ handleLoginSuccess
    \/ Idle /\ loginSaved
    \/ Idle /\ handleFolderSelected
    \/ Idle /\ folderSaved
    \/ Idle /\ handleLogout
    \/ Idle /\ tokenCleared
    \/ Idle /\ handleOpenSettings
    \/ Idle /\ handleBackFromSettings
    \/ Idle /\ handleCloseComic
    \/ Idle /\ \E id \in Comics : downloadAndOpenComic(id)
    \/ Idle /\ \E i \in DOMAIN opens : downloadFileDone(i)
    \/ Idle /\ \E i \in Extracting :
                  \E pages \in extractPagesFromCBR(ArchiveOf(opens[i].id), opens[i].id,
                                                    Failures(ArchiveOf(opens[i].id)),
                                                    objectUrls) :
                     extractPagesDone(i, pages)
    \/ Idle /\ \E i \in DOMAIN opens : getComicProgressDone(i)
    \/ Idle /\ \E i \in DOMAIN opens : handleOpenComic(i)
    \/ Idle /\ \E i \in DOMAIN opens : openFailed(i)
    \/ Idle /\ nextPage
    \/ Idle /\ previousPage
    \/ \E i \in DOMAIN saves : saveGetItem(i)
    \/ \E i \in DOMAIN saves : saveSetItem(i)

Spec == Init /\ [][Next]_vars

-----------------------------------------------------------------------------
(* One reading session: the reader is on screen with a comic of n pages.   *)

\* A comic as downloadAndOpenComic hands it to the reader: n pages, none of
\* them failed, opened at page currentPage.
OpenedComic(n, currentPage) ==
    [id |-> "A",
     pages |-> pagesFrom([i \in 1 .. n |-> PageName(i)], "A", {}, 0, 0),
     totalPages |-> n,
     currentPage |-> currentPage]

\* The state in which the reader has just been mounted on comic, with the
\* given settings; mountedDeps is what the saveProgress effect has run with.
InSession(comic, settings, mountedDeps) ==
    /\ currentState = "reader"
    /\ accessToken = "token"
    /\ selectedFolder = "folder"
    /\ currentComic = comic
    /\ readingSettings = settings
    /\ pending = {}
    /\ downloadingComics = {}
    /\ error = NULL
    /\ opens = <<>>
    /\ currentPageIndex = comic.currentPage
    /\ zoom = One
    /\ position = Origin
    /\ loadedImages = {}
    /\ imageErrors = {}
    /\ savedDeps = mountedDeps
    /\ comicProgress = NoProgress
    /\ saves = <<>>
    /\ storedSettings = <<>>
    /\ settingsSaves = <<>>
    /\ objectUrls = comic.totalPages
    /\ revokedUrls = <<>>
    /\ now = 0
    /\ archive = <<>>
    /\ extracted = <<>>
    /\ compared = <<>>
    /\ preload = NoPreload
    /\ containerScrollTop = 0
    /\ lastOp = "init"

SessionSettings ==
    {[DefaultSettings EXCEPT !.pageLayout = l, !.readingDirection = d] :
        l \in {"single", "continuous"}, d \in ReadingDirections}

\* The settings panel of the reader changes one field at a time.
LayoutChanges ==
    {[readingSettings EXCEPT !.pageLayout = l] : l \in PageLayouts}
    \cup {[readingSettings EXCEPT !.readingDirection = d] : d \in ReadingDirections}

\* The view of a session: zoom, pan and page turns, under each layout and
\* reading direction.  The saveProgress effect and the storage steps neither
\* read nor write the view and are left out.
InitView ==
    \E n \in 1 .. MaxPages : \E c \in 0 .. n - 1 : \E settings \in SessionSettings :
       InSession(OpenedComic(n, c), settings, <<c, "A">>)

NextView ==
    \/ nextPage
    \/ previousPage
    \/ resetView
    \/ zoomIn
    \/ zoomOut
    \/ \E scale \in PinchScales : onPinch(scale)
    \/ \E dy \in WheelDeltas : \E ctrlKey \in BOOLEAN : onWheel(dy, ctrlKey)
    \/ \E offset \in DragOffsets : \E pinching \in BOOLEAN : onDrag(offset, pinching)

SpecView == InitView /\ [][NextView]_vars

\* The progress writes of a session: page turns and scrolling, the
\* saveProgress effect, and the steps of saveComicProgress.
InitSession ==
    \E c \in 0 .. MaxPages - 1 : \E l \in {"single", "continuous"} :
       InSession(OpenedComic(MaxPages, c), [DefaultSettings EXCEPT !.pageLayout = l], NoDeps)

NextSession ==
    \/ saveProgressEffect
    \/ Idle /\ nextPage
    \/ Idle /\ previousPage
    \/ Idle /\ \E scrollTop \in ScrollTops : handleScroll(scrollTop)
    \/ \E i \in DOMAIN saves : saveGetItem(i)
    \/ \E i \in DOMAIN saves : saveSetItem(i)

SpecSession == InitSession /\ [][NextSession]_vars

-----------------------------------------------------------------------------
(* ComicService.preloadPages and the preload effect of the reader.         *)

PreloadWindow == 3      \* comicService.preloadPages(comic.pages, currentPageIndex, 3)
MaxCount == 4           \* largest count passed to preloadPages directly

Min(a, b) == IF a < b THEN a ELSE b

\* Array.prototype.slice(start, end) for start, end >= 0.
slice(seq, start, end) ==
    IF Min(start, Len(seq)) >= Min(end, Len(seq)) THEN <<>>
    ELSE SubSeq(seq, Min(start, Len(seq)) + 1, Min(end, Len(seq)))

\* Promise.all: rejected as soon as one of the promises is rejected.
all(outcomes) ==
    IF \E k \in DOMAIN outcomes : outcomes[k] = "failed" THEN "rejected" ELSE "fulfilled"

\* Promise.allSettled: fulfilled once every promise has settled, whatever the
\* outcomes.
allSettled(outcomes) == "fulfilled"

notPreload == <<appVars, readingSettings, pending, libraryVars, viewVars, savedDeps,
                storeVars, urlVars, archive, extracted, compared, containerScrollTop>>

\* preloadPages(pages, startIndex, count) up to its await: one preloadImage
\* for each page of pages.slice(startIndex, startIndex + count).
preloadPages(pages, startIndex, count) ==
    /\ preload = NoPreload
    /\ LET pagesToPreload == slice(pages, startIndex, startIndex + count)
       IN  preload' = [startIndex |-> startIndex, count |-> count,
                       requested |-> [k \in DOMAIN pagesToPreload |-> pagesToPreload[k].url],
                       outcomes |-> [k \in DOMAIN pagesToPreload |-> "pending"],
                       result |-> "pending"]
    /\ Stamp("preloadPages")
    /\ UNCHANGED notPreload

\* The preload effect of the reader, on mount.
preloadEffect ==
    /\ ReaderMounted
    /\ preloadPages(currentComic.pages, currentPageIndex, PreloadWindow)

\* preloadImage: img.onload resolves, img.onerror rejects.
preloadImage(k, outcome) ==
    /\ k \in DOMAIN preload.outcomes
    /\ preload.outcomes[k] = "pending"
    /\ preload' = [preload EXCEPT !.outcomes[k] = outcome]
    /\ Stamp("preloadImage")
    /\ UNCHANGED notPreload

\* await Promise.allSettled(...) returns.
preloadPagesDone ==
    /\ preload.result = "pending"
    /\ \A k \in DOMAIN preload.outcomes : preload.outcomes[k] # "pending"
    /\ preload' = [preload EXCEPT !.result = allSettled(preload.outcomes)]
    /\ Stamp("preloadPages")
    /\ UNCHANGED notPreload

InitPreload ==
    \E c \in 0 .. MaxPages - 1 :
       InSession(OpenedComic(MaxPages, c), DefaultSettings, NoDeps)

NextPreload ==
    \/ preloadEffect
    \/ \E startIndex \in 0 .. MaxPages + 1, count \in 0 .. MaxCount :
          ReaderMounted /\ preloadPages(currentComic.pages, startIndex, count)
    \/ \E k \in DOMAIN preload.outcomes : preloadImage(k, "loaded")
    \/ \E k \in DOMAIN preload.outcomes : preloadImage(k, "failed")
    \/ preloadPagesDone

SpecPreload == InitPreload /\ [][NextPreload]_vars

-----------------------------------------------------------------------------
(* The settings page and the stored settings.                              *)

NextSettings ==
    \/ handleLoginSuccess
    \/ loginSaved
    \/ handleFolderSelected
    \/ folderSaved
    \/ handleOpenSettings
    \/ handleBackFromSettings
    \/ \E newSettings \in LayoutChanges : handleSettingsChange(newSettings)
    \/ \E i \in DOMAIN settingsSaves : saveReadingSettings(i)
    \/ clearCache

SpecSettings == Init /\ [][NextSettings]_vars

-----------------------------------------------------------------------------
(* The page images of a session: loads, failures and retries.              *)

InitImages ==
    \E l \in {"single", "continuous"} :
       InSession(OpenedComic(MaxPages, 0), [DefaultSettings EXCEPT !.pageLayout = l], NoDeps)

NextImages ==
    \/ nextPage
    \/ previousPage
    \/ \E pageIndex \in shownPages : handleImageLoad(pageIndex)
    \/ \E pageIndex \in shownPages : handleImageError(pageIndex)
    \/ \E pageIndex \in shownPages : retryImage(pageIndex)

SpecImages == InitImages /\ [][NextImages]_vars

-----------------------------------------------------------------------------
(* extractPagesFromCBR on its own.                                         *)

\* Entries an archive is made of: the four of the example, a shorter number
\* with an upper-case extension, a directory marker with the name of an
\* image, and a name that is an extension without its dot.
EntryPool ==
    {[name |-> <<"0", "0", "3", ".", "p", "n", "g">>, dir |-> FALSE],
     [name |-> <<"0", "0", "1", ".", "j", "p", "g">>, dir |-> FALSE],
     [name |-> <<"c", "o", "v", "e", "r", ".", "t", "x", "t">>, dir |-> FALSE],
     [name |-> <<"0", "0", "2", ".", "w", "e", "b", "p">>, dir |-> FALSE],
     [name |-> <<"1", "0", ".", "J", "P", "G">>, dir |-> FALSE],
     [name |-> <<"d", ".", "j", "p", "e", "g", "/">>, dir |-> TRUE],
     [name |-> <<"j", "p", "g">>, dir |-> FALSE]}

\* Archives: sequences of distinct entries.
Archives ==
    {a \in UNION {[1 .. n -> EntryPool] : n \in 0 .. MaxEntries} :
        \A i, j \in DOMAIN a : i # j => a[i] # a[j]}

InitExtract == \E entries \in Archives : Started(entries)

\* ComicService.extractPagesFromCBR(archive, "A") is called once.
extractArchive(failures) ==
    /\ lastOp = "init"
    /\ extracted' \in extractPagesFromCBR(archive, "A", failures, 0)
    /\ Stamp(IF failures = {{}} THEN "extractPagesFromCBR"
             ELSE "extractPagesFromCBR, reads failed")
    /\ UNCHANGED <<appVars, readingSettings, pending, libraryVars, viewVars, savedDeps,
                   storeVars, urlVars, archive, compared, preload, containerScrollTop>>

NextExtract ==
    \/ extractArchive({{}})
    \/ extractArchive(Failures(archive) \ {{}})

SpecExtract == InitExtract /\ [][NextExtract]_vars

\* Names given to the comparator: those of the numeric and lexical examples,
\* two that differ in a leading zero, and three whose first run is 10, 9 and
\* the superscript two.
NamePool ==
    {<<"p", "a", "g", "e", "2", ".", "j", "p", "g">>,
     <<"p", "a", "g", "e", "1", "0", ".", "j", "p", "g">>,
     <<"p", "a", "g", "e", "1", "1", ".", "j", "p", "g">>,
     <<"p", "a", "g", "e", "9">>,
     <<"p", "a", "g", "e", "1", "0">>,
     <<"p", "a", "g", "e", "a", ".", "j", "p", "g">>,
     <<"0", "1", ".", "j", "p", "g">>,
     <<"1", ".", "j", "p", "g">>,
     <<"1", "0", ".", "j", "p", "g">>,
     <<SuperscriptTwo, ".", "j", "p", "g">>,
     <<"9", ".", "j", "p", "g">>,
     <<"p", "a", "g", "e">>,
     <<"1">>}

SortedNames == 3        \* names in an array under sort

\* Arrays of distinct names, as the keys of zipFile.files are.
NameArrays ==
    {a \in [1 .. SortedNames -> NamePool] : \A i, j \in DOMAIN a : i # j => a[i] # a[j]}

InitSort ==
    \E names \in NameArrays : Started([i \in DOMAIN names |-> [name |-> names[i], dir |-> FALSE]])

\* imageFiles.sort(this.naturalSort) calls the comparator on two elements of
\* the array.  The comparator keeps no state: one call is followed per run.
compareNames(i, j) ==
    /\ compared = <<>>
    /\ compared' = <<[a |-> archive[i].name, b |-> archive[j].name,
                     result |-> naturalSort(archive[i].name, archive[j].name)]>>
    /\ Stamp("naturalSort")
    /\ UNCHANGED <<appVars, readingSettings, pending, libraryVars, viewVars, savedDeps,
                   storeVars, urlVars, archive, extracted, preload, containerScrollTop>>

NextSort == \E i, j \in DOMAIN archive : compareNames(i, j)

SpecSort == InitSort /\ [][NextSort]_vars


-----------------------------------------------------------------------------
(* Properties of the view of a session (SpecView).                         *)

singlePage == ReaderMounted /\ ~isContinuousMode
interior == 0 < currentPageIndex /\ currentPageIndex < currentComic.totalPages - 1
direction == readingSettings.readingDirection

\* C4: in single-page mode with the cursor at an interior page k, "next" moves
\* the cursor to k - 1 when the reading direction is rtl and to k + 1 when it
\* is ltr, and "previous" does the mirror image.
C4_DirectionalTurn ==
    [][singlePage /\ interior =>
          /\ lastOp' = "nextPage" =>
                currentPageIndex' = currentPageIndex + (IF direction = "rtl" THEN -1 ELSE 1)
          /\ lastOp' = "previousPage" =>
                currentPageIndex' = currentPageIndex + (IF direction = "rtl" THEN 1 ELSE -1)]_vars

\* "next" under rtl has taken a session of four pages from page 2 to page 1.
C4_Witness ==
    /\ singlePage /\ direction = "rtl" /\ lastOp = "nextPage"
    /\ currentComic.totalPages = 4 /\ currentPageIndex = 1

atFirst == currentPageIndex = 0
atLast == currentPageIndex = currentComic.totalPages - 1

\* C5: in single-page mode a page turn at a boundary ("previous" at page 0 and
\* "next" at the last page under ltr, "next" at page 0 and "previous" at the
\* last page under rtl) leaves cursor, zoom and pan offset unchanged.
C5_BoundaryNoOp ==
    [][/\ singlePage
       /\ \/ direction = "ltr" /\ lastOp' = "previousPage" /\ atFirst
          \/ direction = "ltr" /\ lastOp' = "nextPage" /\ atLast
          \/ direction = "rtl" /\ lastOp' = "nextPage" /\ atFirst
          \/ direction = "rtl" /\ lastOp' = "previousPage" /\ atLast
       => UNCHANGED <<currentPageIndex, zoom, position>>]_vars

\* "previous" ran at page 0 under ltr on a zoomed and panned page: a turn
\* that moves the cursor would have reset zoom and pan.
C5_Witness ==
    /\ singlePage /\ direction = "ltr" /\ lastOp = "previousPage" /\ atFirst
    /\ currentComic.totalPages > 1
    /\ zoom # One /\ position # Origin

\* C6: the zoom factor of a session is within [0.5, 5] in every state.
C6_ZoomInRange == ReaderMounted => RatLE(Half, zoom) /\ RatLE(zoom, Five)

\* zoomIn has been cut off at 5.
C6_Witness == ReaderMounted /\ lastOp = "zoomIn" /\ zoom = Five

\* C7: whenever the zoom factor is at most 1 the pan offset is (0, 0).
C7_NoPanUnlessZoomed == ReaderMounted /\ RatLE(zoom, One) => position = Origin

\* zoomOut has ended at a zoom below 1.
C7_Witness == ReaderMounted /\ lastOp = "zoomOut" /\ RatLT(zoom, One) /\ position = Origin

\* C8: in single-page mode with zoom > 1 the pan offset is within
\* (zoom - 1) * imageWidth / 2 horizontally and (zoom - 1) * imageHeight / 2
\* vertically.
C8_PanWithinBounds ==
    singlePage /\ RatLT(One, zoom) =>
       /\ RatLE(RatAbs(position.x), dragBounds.x)
       /\ RatLE(RatAbs(position.y), dragBounds.y)

-----------------------------------------------------------------------------
(* Properties of the progress writes of a session (SpecSession).           *)

\* The lastRead stamp of the write issued last.
latest == now - 1

stored(id) == comicProgress[id]

\* C2: every change of the cursor issues a progress write: once the effect
\* has run, the write issued last carries the comic id and the cursor.  When
\* every issued write has completed there is a stored record for the comic,
\* and it holds the cursor if the write that completed last is the one issued
\* last; writes may complete in another order than they were issued.
C2_WritesFollowCursor ==
    ReaderMounted /\ ~effectPending =>
       /\ now > 0
       /\ \A i \in DOMAIN saves :
             saves[i].progress.lastRead = latest =>
                /\ saves[i].id = currentComic.id
                /\ saves[i].progress.currentPage = currentPageIndex
       /\ saves = <<>> =>
             /\ currentComic.id \in DOMAIN comicProgress
             /\ stored(currentComic.id).lastRead = latest =>
                   stored(currentComic.id).currentPage = currentPageIndex

\* Two writes, for the page the comic was opened at and for the page turned
\* to, have completed in the order they were issued.
C2_Witness ==
    /\ ReaderMounted /\ ~effectPending /\ saves = <<>> /\ now = 2
    /\ currentPageIndex # currentComic.currentPage
    /\ stored(currentComic.id) = [currentPage |-> currentPageIndex, lastRead |-> latest]

\* C2 as stated: once every issued write has completed, the stored
\* currentPage of the comic is the cursor.
C2_StoredEqualsCursor ==
    ReaderMounted /\ ~effectPending /\ saves = <<>> =>
       /\ currentComic.id \in DOMAIN comicProgress
       /\ stored(currentComic.id).currentPage = currentPageIndex

-----------------------------------------------------------------------------
(* Properties of the application (Spec).                                   *)

\* C1: while the reader shows a comic with at least one page, the cursor is
\* a page of that comic: 0 <= currentPageIndex < totalPages.
C1_CursorInRange ==
    ReaderMounted /\ currentComic.totalPages >= 1 =>
       0 <= currentPageIndex /\ currentPageIndex < currentComic.totalPages

urlsOf(pages) == {pages[i].url : i \in DOMAIN pages}

\* Object URLs of the comic on screen, and of calls that have extracted their
\* pages and have not handed them over yet.
displayedUrls == IF ReaderMounted THEN urlsOf(currentComic.pages) ELSE {}
heldUrls == UNION {urlsOf(opens[i].pages) : i \in {j \in DOMAIN opens : InFlight(opens[j])}}

timesRevoked(u) == Cardinality({i \in DOMAIN revokedUrls : revokedUrls[i] = u})

\* C3: an object URL made by extractPagesFromCBR is not revoked while its
\* comic is on screen, and has been revoked exactly once when its comic has
\* left the screen.
C3_HandlesReleased ==
    \A u \in 1 .. objectUrls :
       timesRevoked(u) = IF u \in displayedUrls \cup heldUrls THEN 0 ELSE 1

\* C9: when a downloadAndOpenComic call fails as a whole, the comic is not
\* handed to the reader, the application is in the library with an error
\* message, and the id of the comic is not in the downloading set.
C9_FailedOpenReported ==
    [][\A i \in DOMAIN opens :
          opens[i].pc # "threw" /\ opens'[i].pc = "threw" =>
             /\ currentState' = "library"
             /\ error' # NULL
             /\ opens[i].id \notin downloadingComics'
             /\ currentComic' = currentComic]_vars

-----------------------------------------------------------------------------
(* Properties of extractPagesFromCBR (SpecExtract).                        *)

PageExtensions ==
    {<<"j", "p", "g">>, <<"j", "p", "e", "g">>, <<"p", "n", "g">>,
     <<"g", "i", "f">>, <<"b", "m", "p">>, <<"w", "e", "b", "p">>}

\* name ends with a dot and one of the extensions, in any case.
HasPageExtension(name) ==
    \E ext \in PageExtensions :
       /\ Len(name) > Len(ext)
       /\ toLowerCase(SubSeq(name, Len(name) - Len(ext), Len(name))) = <<".">> \o ext

expectedNames == {archive[i].name : i \in {j \in DOMAIN archive :
                     ~archive[j].dir /\ HasPageExtension(archive[j].name)}}

extractedAll == lastOp = "extractPagesFromCBR"

\* C10: extraction returns exactly the entries that are not directory markers
\* and whose extension is, in any case, one of jpg, jpeg, png, gif, bmp, webp,
\* one page each, in the order of the natural comparator on the entry names,
\* numbered from 0; entries 003.png, 001.jpg, cover.txt, 002.webp give the
\* pages 001.jpg, 002.webp, 003.png.
C10_ExtractionFilterAndOrder ==
    extractedAll =>
       /\ {extracted[i].blob : i \in DOMAIN extracted} = expectedNames
       /\ Len(extracted) = Cardinality(expectedNames)
       /\ \A i, j \in DOMAIN extracted :
             i < j => naturalSort(extracted[i].blob, extracted[j].blob) <= 0
       /\ \A i \in DOMAIN extracted :
             extracted[i].index = i - 1 /\ extracted[i].id = <<"A", "-page-", i - 1>>
       /\ archive = <<[name |-> <<"0", "0", "3", ".", "p", "n", "g">>, dir |-> FALSE],
                      [name |-> <<"0", "0", "1", ".", "j", "p", "g">>, dir |-> FALSE],
                      [name |-> <<"c", "o", "v", "e", "r", ".", "t", "x", "t">>, dir |-> FALSE],
                      [name |-> <<"0", "0", "2", ".", "w", "e", "b", "p">>, dir |-> FALSE]>>
             => [i \in DOMAIN extracted |-> extracted[i].blob]
                   = << <<"0", "0", "1", ".", "j", "p", "g">>,
                        <<"0", "0", "2", ".", "w", "e", "b", "p">>,
                        <<"0", "0", "3", ".", "p", "n", "g">> >>

\* The archive of the example has been extracted into three pages, with the
\* upper-case extension of a fourth archive still to be seen elsewhere.
C10_Witness ==
    /\ extractedAll
    /\ Len(archive) = 4 /\ Len(extracted) = 3
    /\ archive[1].name = <<"0", "0", "3", ".", "p", "n", "g">>
    /\ archive[3].name = <<"c", "o", "v", "e", "r", ".", "t", "x", "t">>
    /\ extracted[1].blob = <<"0", "0", "1", ".", "j", "p", "g">>

extractedSome == lastOp \in {"extractPagesFromCBR", "extractPagesFromCBR, reads failed"}

\* C11: the pages an extraction returns carry increasing indices among the
\* positions of the image entries and the id '<comicId>-page-<index>'; when
\* no entry was skipped, page i of the sequence has index i, so the indices
\* are exactly 0 .. totalPages - 1.
C11_IndicesOfReturnedPages ==
    extractedSome =>
       /\ \A i \in DOMAIN extracted :
             /\ extracted[i].index \in 0 .. Cardinality(expectedNames) - 1
             /\ extracted[i].id = <<"A", "-page-", extracted[i].index>>
       /\ \A i, j \in DOMAIN extracted :
             i < j => extracted[i].index < extracted[j].index
       /\ Len(extracted) = Cardinality(expectedNames) =>
             \A i \in DOMAIN extracted : extracted[i].index = i - 1

\* Three image entries were read and made into the pages 0, 1 and 2.
C11_Witness ==
    /\ extractedAll /\ Len(extracted) = 3
    /\ extracted[3].index = 2 /\ extracted[3].id = <<"A", "-page-", 2>>

\* C11 as stated: in every returned sequence, page i has index i and the id
\* '<comicId>-page-<i>'.
C11_IndexIsPosition ==
    extractedSome =>
       \A i \in DOMAIN extracted :
          extracted[i].index = i - 1 /\ extracted[i].id = <<"A", "-page-", i - 1>>

-----------------------------------------------------------------------------
(* More properties of the application (Spec).                              *)

\* C12: a downloadAndOpenComic call hands its comic to the reader only if no
\* other call was started while it was in flight: the result of an earlier
\* call is discarded when it resolves.
C12_StaleOpenDiscarded ==
    [][\A i \in DOMAIN opens :
          opens[i].pc = "saveComic" /\ opens'[i].pc = "returned" => i = Len(opens)]_vars

handedOver(i) == opens[i].pc = "saveComic" /\ opens'[i].pc = "returned"

\* C13: when a downloadAndOpenComic call hands its comic to the reader, the
\* cursor of the session is the currentPage of that comic, and, no progress
\* write being in flight, that is the stored currentPage of the comic's id,
\* or 0 when nothing is stored for it.
C13_SessionStartsAtStoredPage ==
    [][\A i \in DOMAIN opens :
          handedOver(i) =>
             /\ currentPageIndex' = currentComic'.currentPage
             /\ saves = <<>> =>
                   currentComic'.currentPage =
                      IF opens[i].id \in DOMAIN comicProgress
                      THEN comicProgress[opens[i].id].currentPage ELSE 0]_vars

-----------------------------------------------------------------------------
(* Properties of the natural comparator (SpecSort).                        *)

lastCall == compared[1]

\* parts are the maximal digit runs and non-digit runs of name, in order.
IsRunSplit(parts, name) ==
    /\ \A i \in DOMAIN parts :
          /\ Len(parts[i]) > 0
          /\ \A k \in DOMAIN parts[i] : IsDigit(parts[i][k]) = IsDigit(parts[i][1])
          /\ i > 1 => IsDigit(parts[i][1]) # IsDigit(parts[i - 1][1])
    /\ LET joined[i \in 0 .. Len(parts)] ==
               IF i = 0 THEN <<>> ELSE joined[i - 1] \o parts[i]
       IN  joined[Len(parts)] = name

\* The unsigned integer a digit run denotes.
DecimalValue(run) ==
    LET value[i \in 0 .. Len(run)] ==
           IF i = 0 THEN 0 ELSE 10 * value[i - 1] + DigitValue(run[i])
    IN  value[Len(run)]

\* The order of two aligned runs: as integers when both are digit runs,
\* lexical otherwise.
RunOrder(x, y) ==
    IF AllDigits(x) /\ AllDigits(y)
    THEN Sign(DecimalValue(x) - DecimalValue(y))
    ELSE Sign(localeCompare(x, y))

\* The first position at which the aligned runs pa and pb are not in order 0.
Deciding(pa, pb) ==
    {i \in 1 .. Len(pa) + Len(pb) :
        /\ RunOrder(PartAt(pa, i), PartAt(pb, i)) # 0
        /\ \A h \in 1 .. i - 1 : RunOrder(PartAt(pa, h), PartAt(pb, h)) = 0}

page(suffix) == <<"p", "a", "g", "e">> \o suffix
jpg(stem) == stem \o <<".", "j", "p", "g">>

\* C14: the comparator splits both names into their maximal digit and
\* non-digit runs and returns the order of the first pair of aligned runs
\* that are not in order 0, digit runs compared as integers and other runs
\* lexically; so page2.jpg < page10.jpg < page11.jpg, page9 < page10 and
\* page2.jpg < pagea.jpg.
C14_NaturalOrder ==
    compared # <<>> =>
       /\ LET pa == Parts(lastCall.a)
              pb == Parts(lastCall.b)
          IN  /\ IsRunSplit(pa, lastCall.a)
              /\ IsRunSplit(pb, lastCall.b)
              /\ \A i \in Deciding(pa, pb) :
                    Sign(lastCall.result) = RunOrder(PartAt(pa, i), PartAt(pb, i))
              /\ Deciding(pa, pb) = {} => lastCall.result = 0
       /\ <<lastCall.a, lastCall.b>> \in
             {<<jpg(page(<<"2">>)), jpg(page(<<"1", "0">>))>>,
              <<jpg(page(<<"1", "0">>)), jpg(page(<<"1", "1">>))>>,
              <<jpg(page(<<"2">>)), jpg(page(<<"1", "1">>))>>,
              <<page(<<"9">>), page(<<"1", "0">>)>>,
              <<jpg(page(<<"2">>)), jpg(page(<<"a">>))>>}
             => lastCall.result < 0

\* page9 was compared with page10 and found smaller.
C14_Witness ==
    /\ compared # <<>>
    /\ lastCall.a = page(<<"9">>) /\ lastCall.b = page(<<"1", "0">>)
    /\ lastCall.result < 0

\* C15: the comparator returns 0 for two names exactly when they are the same
\* name.
C15_ZeroOnlyForIdentical ==
    compared # <<>> => (lastCall.result = 0 <=> lastCall.a = lastCall.b)

arrayNames == {archive[i].name : i \in DOMAIN archive}

\* C16: over the names of an array under sort the comparator is antisymmetric
\* and transitive.
C16_ConsistentOrdering ==
    lastOp = "naturalSort" =>
       /\ \A a, b \in arrayNames : Sign(naturalSort(a, b)) = -Sign(naturalSort(b, a))
       /\ \A a, b, c \in arrayNames :
             naturalSort(a, b) < 0 /\ naturalSort(b, c) < 0 => naturalSort(a, c) < 0

-----------------------------------------------------------------------------
(* Properties of the stores (Spec).                                        *)

\* Comic ids for which a reading session, and so a progress write, may have
\* started.
writtenIds == {opens[i].id : i \in {j \in DOMAIN opens : opens[j].pc = "returned"}}

\* C17: when a saveComicProgress(id, progress) call completes,
\* getComicProgress(id) returns that progress until another write completes;
\* getComicProgress returns null for a comic id that was never written.
C17_ProgressRoundTrip ==
    [][/\ Len(saves') < Len(saves) =>
             \E i \in DOMAIN saves :
                /\ saves[i].pc = "setItem" /\ saves' = RemoveAt(saves, i)
                /\ progressIn(comicProgress', saves[i].id) = <<saves[i].progress>>
       /\ Len(saves') >= Len(saves) =>
             \A id \in Comics : getComicProgress(id)' = getComicProgress(id)
       /\ \A id \in Comics \ writtenIds' : getComicProgress(id)' = <<>>]_vars

\* The progress written for comic A at page 1 is read back, and nothing is
\* read for comic B, which was never opened.
C17_Witness ==
    /\ saves = <<>>
    /\ getComicProgress("A") = <<[currentPage |-> 1, lastRead |-> 1]>>
    /\ "B" \notin writtenIds /\ getComicProgress("B") = <<>>

-----------------------------------------------------------------------------
(* More properties of a reading session (SpecSession).                     *)

\* C18: in continuous mode nextPage and previousPage leave the cursor as it
\* is, and the cursor changes only in a step of the scroll listener.
C18_ContinuousTurnsKeepCursor ==
    [][ReaderMounted /\ isContinuousMode =>
          /\ lastOp' \in {"nextPage", "previousPage"} => currentPageIndex' = currentPageIndex
          /\ currentPageIndex' # currentPageIndex => lastOp' = "handleScroll"]_vars

\* In continuous mode "next" was pressed on an inner page that scrolling had
\* made the cursor.
C18_Witness ==
    /\ ReaderMounted /\ isContinuousMode
    /\ lastOp = "nextPage"
    /\ currentPageIndex = 2 /\ currentComic.currentPage = 0
    /\ currentComic.totalPages = 4

-----------------------------------------------------------------------------
(* Properties of the page prefetcher (SpecPreload).                        *)

\* The positions startIndex .. min(startIndex + count, length) - 1 of the
\* page list.
window == {i \in 0 .. currentComic.totalPages - 1 :
              preload.startIndex <= i /\ i < preload.startIndex + preload.count}

\* C19: preloadPages(pages, cursor, w) requests the images of exactly the
\* pages at positions cursor .. min(cursor + w, length(pages)) - 1, and its
\* result is never a rejection, whichever of the requests fail.
C19_PreloadWindowNeverFails ==
    preload.result # "none" =>
       /\ Len(preload.requested) = Cardinality(window)
       /\ \A k \in DOMAIN preload.requested :
             /\ preload.startIndex + k - 1 \in window
             /\ preload.requested[k] = currentComic.pages[preload.startIndex + k].url
       /\ preload.result \in {"pending", "fulfilled"}
       /\ preload.result = "fulfilled" =>
             \A k \in DOMAIN preload.outcomes : preload.outcomes[k] \in {"loaded", "failed"}

\* The preload of the reader at cursor 2 of 4 pages asked for pages 2 and 3
\* only; one of them failed to load and the call returned all the same.
C19_Witness ==
    /\ preload.startIndex = 2 /\ preload.count = PreloadWindow
    /\ currentPageIndex = 2
    /\ Len(preload.requested) = 2
    /\ preload.outcomes = <<"loaded", "failed">>
    /\ preload.result = "fulfilled"

-----------------------------------------------------------------------------
(* Properties of the stored settings (SpecSettings).                       *)

\* C20: getReadingSettings returns fitMode width, pageLayout single,
\* readingDirection ltr, backgroundColor #000000 and showProgress true while
\* no settings are stored, and from the moment a saveReadingSettings call
\* completes it returns the settings passed to that call, until another one
\* completes or the store is cleared.
C20_SettingsRoundTrip ==
    [][/\ storedSettings' = <<>> =>
             /\ getReadingSettings'.fitMode = "width"
             /\ getReadingSettings'.pageLayout = "single"
             /\ getReadingSettings'.readingDirection = "ltr"
             /\ getReadingSettings'.backgroundColor = "#000000"
             /\ getReadingSettings'.showProgress = TRUE
       /\ Len(settingsSaves') < Len(settingsSaves) =>
             \E i \in DOMAIN settingsSaves :
                 /\ settingsSaves' = RemoveAt(settingsSaves, i)
                 /\ getReadingSettings' = settingsSaves[i]
       /\ storedSettings' = storedSettings => getReadingSettings' = getReadingSettings]_vars

\* Settings with the double layout and the rtl direction were saved and are
\* what getReadingSettings returns.
C20_Witness ==
    /\ settingsSaves = <<>> /\ storedSettings # <<>>
    /\ getReadingSettings.pageLayout = "double"
    /\ getReadingSettings.readingDirection = "rtl"
    /\ getReadingSettings = readingSettings

-----------------------------------------------------------------------------
(* More properties of extractPagesFromCBR (SpecExtract).                   *)

extractedWithSkips == lastOp = "extractPagesFromCBR, reads failed"

\* The position of an image entry in the sorted entry list, from 0.
sortedPosition(name) == Cardinality({other \in expectedNames : naturalSort(other, name) < 0})

\* C21: when reading some entries fails, extraction still returns: the pages
\* are those of the other image entries, one each, in sorted order, fewer
\* than the image entries, and every page carries the index of its entry in
\* the sorted entry list, whether or not an earlier entry was skipped.
C21_SkippedEntriesLeaveGaps ==
    extractedWithSkips =>
       /\ Len(extracted) < Cardinality(expectedNames)
       /\ Len(extracted) >= Cardinality(expectedNames) - MaxFailed
       /\ \A i \in DOMAIN extracted :
             /\ extracted[i].blob \in expectedNames
             /\ extracted[i].index = sortedPosition(extracted[i].blob)
       /\ \A i, j \in DOMAIN extracted :
             i < j => sortedPosition(extracted[i].blob) < sortedPosition(extracted[j].blob)

\* Of three image entries the second could not be read: two pages came back,
\* the second of them with index 2.
C21_Witness ==
    /\ extractedWithSkips
    /\ Cardinality(expectedNames) = 3 /\ Len(extracted) = 2
    /\ extracted[1].index = 0 /\ extracted[2].index = 2

-----------------------------------------------------------------------------
(* How far the stored progress lags behind the cursor (SpecSession).       *)

\* C22: while a comic is read page by page, the stored currentPage of the
\* comic is the cursor or the value the cursor had before its last change,
\* which in single-page mode is a neighbour of the cursor.
C22_ProgressLagsAtMostOne ==
    ReaderMounted /\ ~isContinuousMode /\ currentComic.id \in DOMAIN comicProgress =>
       /\ stored(currentComic.id).currentPage - currentPageIndex <= 1
       /\ currentPageIndex - stored(currentComic.id).currentPage <= 1

-----------------------------------------------------------------------------
(* Properties of the page images (SpecImages).                             *)

\* C23: a display failure adds one page of those on screen to the error set
\* and changes neither the loaded set nor the cursor; a retry removes one page
\* of the error set from the error set and from the loaded set, and changes
\* neither the membership of any other page in the two sets nor the cursor.
C23_ImageSetsPerPage ==
    [][/\ lastOp' = "handleImageError" =>
             /\ \E pageIndex \in shownPages : imageErrors' = imageErrors \cup {pageIndex}
             /\ loadedImages' = loadedImages
             /\ currentPageIndex' = currentPageIndex
       /\ lastOp' = "retryImage" =>
             /\ \E pageIndex \in imageErrors :
                   /\ imageErrors' = imageErrors \ {pageIndex}
                   /\ loadedImages' = loadedImages \ {pageIndex}
             /\ currentPageIndex' = currentPageIndex]_vars

\* A retry has cleared one page while another page stays in the error set and
\* a third in the loaded set.
C23_Witness ==
    /\ lastOp = "retryImage"
    /\ imageErrors = {1} /\ loadedImages = {2}

-----------------------------------------------------------------------------
(* More properties of the view of a session (SpecView).                    *)

\* C24: in continuous mode zoomIn, zoomOut, a pinch, a wheel event and a drag
\* change neither the zoom factor nor the pan offset.
C24_ContinuousViewFixed ==
    [][ReaderMounted /\ isContinuousMode
          /\ lastOp' \in {"zoomIn", "zoomOut", "onPinch", "onWheel", "onDrag"}
          => zoom' = zoom /\ position' = position]_vars

\* zoomIn was pressed in continuous mode and the zoom is what it was.
C24_Witness ==
    /\ ReaderMounted /\ isContinuousMode
    /\ lastOp = "zoomIn" /\ zoom = One /\ position = Origin

\* C28: in single-page mode a nextPage or previousPage that moves the cursor
\* leaves zoom 1 and pan (0,0); resetView sets zoom 1 and pan (0,0) and leaves
\* the cursor as it is.
C28_PageChangeResetsView ==
    [][/\ singlePage /\ lastOp' \in {"nextPage", "previousPage"}
             /\ currentPageIndex' # currentPageIndex
          => zoom' = One /\ position' = Origin
       /\ lastOp' = "resetView"
          => zoom' = One /\ position' = Origin /\ currentPageIndex' = currentPageIndex]_vars

\* "previous" has moved the cursor from page 1 to page 0 of a two-page comic,
\* and the view is the reset one.
C28_Witness ==
    /\ singlePage /\ direction = "ltr"
    /\ lastOp = "previousPage"
    /\ currentComic.totalPages = 2 /\ currentComic.currentPage = 1
    /\ currentPageIndex = 0
    /\ zoom = One /\ position = Origin

-----------------------------------------------------------------------------
(* The scroll listener of continuous mode (SpecSession).                   *)

\* Twice the vertical centre of the viewport at a scroll offset, and the pages
\* whose vertical bounds contain it.
centreTwice(scrollTop) == 2 * scrollTop + ViewportHeight
pagesAtCentre(scrollTop) ==
    {i \in 0 .. currentComic.totalPages - 1 :
        2 * i * PageHeight <= centreTwice(scrollTop)
        /\ centreTwice(scrollTop) <= 2 * (i + 1) * PageHeight}

\* C25: a scroll event of continuous mode makes the lowest page whose
\* vertical bounds contain the centre of the viewport the cursor, leaves the
\* cursor as it is when no page contains the centre, and the cursor after it
\* is a page of the comic.
C25_ScrollSetsCentredPage ==
    [][lastOp' = "handleScroll" =>
          /\ isContinuousMode
          /\ IF pagesAtCentre(containerScrollTop') = {}
             THEN currentPageIndex' = currentPageIndex
             ELSE /\ currentPageIndex' \in pagesAtCentre(containerScrollTop')
                  /\ \A i \in pagesAtCentre(containerScrollTop') : currentPageIndex' <= i
          /\ currentPageIndex' \in 0 .. currentComic.totalPages - 1]_vars

\* A scroll has put the centre of the viewport on the boundary that the
\* second and third of four pages share, and the second page is the cursor.
C25_Witness ==
    /\ ReaderMounted /\ isContinuousMode
    /\ lastOp = "handleScroll"
    /\ currentComic.totalPages = 4
    /\ pagesAtCentre(containerScrollTop) = {1, 2}
    /\ currentPageIndex = 1

-----------------------------------------------------------------------------
(* Names whose parts are a prefix of another name's parts (SpecSort).      *)

IsStrictPrefix(p, q) ==
    /\ Len(p) < Len(q)
    /\ \A i \in DOMAIN p : p[i] = q[i]

\* C26: when the parts of one name are a strict prefix of the parts of the
\* other, the comparator puts the name with fewer parts first (page before
\* page9, 1 before 1.jpg).
C26_ShorterPrefixFirst ==
    compared # <<>> =>
       /\ IsStrictPrefix(Parts(lastCall.a), Parts(lastCall.b)) => lastCall.result < 0
       /\ IsStrictPrefix(Parts(lastCall.b), Parts(lastCall.a)) => lastCall.result > 0

\* page has been compared with page9 and put first.
C26_Witness ==
    /\ compared # <<>>
    /\ lastCall.a = page(<<>>)
    /\ lastCall.b = page(<<"9">>)
    /\ IsStrictPrefix(Parts(lastCall.a), Parts(lastCall.b))
    /\ lastCall.result < 0

-----------------------------------------------------------------------------
(* Progress writes of different comics (Spec).                             *)

\* C27: the write step of a saveComicProgress call leaves the stored
\* progress of every other comic as it was.
C27_WritesKeepOtherComics ==
    [][Len(saves') < Len(saves) =>
          \E i \in DOMAIN saves :
             /\ saves[i].pc = "setItem" /\ saves' = RemoveAt(saves, i)
             /\ \A c \in (DOMAIN comicProgress \cup DOMAIN comicProgress') \ {saves[i].id} :
                   progressIn(comicProgress', c) = progressIn(comicProgress, c)]_vars

-----------------------------------------------------------------------------
(* Downloads in flight (Spec).                                             *)

\* C29: no two downloadAndOpenComic calls for the same comic are in flight
\* at once, and with no call in flight the downloading set is empty.
C29_OneDownloadPerComic ==
    /\ \A i, j \in DOMAIN opens :
          i # j /\ InFlight(opens[i]) /\ InFlight(opens[j]) => opens[i].id # opens[j].id
    /\ (\A i \in DOMAIN opens : ~InFlight(opens[i])) => downloadingComics = {}

-----------------------------------------------------------------------------
(* Who sees the reader (Spec).                                             *)

\* C30: whenever the App shows the reader a comic is open and an access
\* token is held.
C30_ReaderOnlyWhenLoggedIn ==
    currentState = "reader" => currentComic.id # NULL /\ accessToken # NULL

=============================================================================
